---- MODULE Spec2Model ----
(***************************************************************************)
(* trafikvader: a daemon that polls the Trafikinfo API for weather         *)
(* stations and republishes the readings as Hemtjanst sensors over MQTT.   *)
(*                                                                         *)
(* Two daemon variants are modelled side by side:                          *)
(*   "xml"  : src/main.go             (WeatherMeasurepoint v2, XML)        *)
(*   "json" : src/unnamed/part_002    (WeatherMeasurepoint 2.0, JSON)      *)
(* and the topic transliteration of src/hemtjanst.go.                      *)
(*                                                                         *)
(* Decimal values are integers in hundredths (1234 is 12.34).  Sample ages *)
(* are minutes before the time of the fetch.  Timers are in seconds.       *)
(***************************************************************************)
EXTENDS Integers, Sequences, FiniteSets, TLC

VARIABLES
    variant,        \* which daemon is running: "xml" or "json"
    stationNames,   \* the values of the -name flags, in order
    pc,             \* position of the main goroutine
    resp,           \* the upstream response of the fetch of this cycle
    fetched,        \* how the retrieve of this cycle ended: "none" (not
                    \* yet), "ok", "err" or "panic"
    fetchErr,       \* the error retrieve returned (NoErr: none)
    data,           \* the readings retrieve returned for this cycle
    idx,            \* update's position in data (1-based, next to process)
    stations,       \* the registry: station id -> device name
    registered,     \* TRUE once main has built the registry
    notfound,       \* the "could not be found" diagnostic: Nil while none
                    \* has been logged, else the list it printed
    pubs,           \* publish calls attempted in this cycle, in order
    pubFailed,      \* some publish call of this cycle returned an error
    ctxDone,        \* the NotifyContext has been cancelled by an interrupt
    woken,          \* which case the blocked select has been woken by
    pollRemaining,  \* seconds left on the time.After of the select
    mqttCreated,    \* mqtt.New has returned a transport
    connPc,         \* position of the connection goroutine
    startOk,        \* the ok value m.Start() returned in this iteration
    sawCancel,      \* what ctx.Err() != nil was in this iteration's check
    sleepRemaining, \* seconds left on the goroutine's time.Sleep
    established,    \* m.Start() has connected to the broker at least once
    exitCode,       \* -1 while the process runs, else its exit code
    exitBy,         \* what terminated the process
    initFetches,    \* number of startup fetches issued
    prevFailed,     \* the previous periodic cycle's fetch returned an error
    intAt,          \* whether main was blocked in the select ("waiting") or
                    \* not ("busy") when the interrupt arrived
    name,           \* input of topicName (transliteration harness)
    topic           \* result of topicName (transliteration harness)

vars == <<variant, stationNames, pc, resp, fetched, fetchErr, data, idx,
          stations, registered, notfound, pubs, pubFailed, ctxDone, woken,
          pollRemaining, mqttCreated, connPc, startOk, sawCancel,
          sleepRemaining, established, exitCode, exitBy, initFetches,
          prevFailed, intAt, name, topic>>

mainVars == <<pc, resp, fetched, fetchErr, data, idx, stations, registered,
              notfound, pubs, pubFailed, woken, pollRemaining, mqttCreated,
              initFetches, prevFailed>>
connVars == <<connPc, startOk, sawCancel, sleepRemaining, established>>
cfgVars == <<variant, stationNames>>
exitVars == <<exitCode, exitBy>>
topicVars == <<name, topic>>

Max(a, b) == IF a > b THEN a ELSE b

(***************************************************************************)
(* Program constants.                                                      *)
(***************************************************************************)
OneHour == 60            \* minutes: time.Now().Add(-1 * time.Hour)
PollInterval == 600      \* seconds: time.After(10 * time.Minute)
ReconnectDelay == 5      \* seconds: time.Sleep(5 * time.Second)
StatusOK == 200
StatusBadRequest == 400
StatusUnauthorized == 401

(***************************************************************************)
(* Bounds of the model.                                                    *)
(***************************************************************************)
StatusServerError == 500 \* the status that stands for "any other status"
Tick == 200              \* seconds of time that pass in one Advance step
MaxNameLen == 3          \* longest station name given to topicName

\* A *float64: Nil, or a pointer to a value.
Nil == <<>>
Some(v) == <<v>>
Deref(p) == p[1]

(***************************************************************************)
(* strconv.FormatFloat(x, 'f', 1, 32) on a value given in hundredths.      *)
(* The value is first rounded to float32 and the exact decimal expansion   *)
(* of that float32 is rounded half-to-even to one fractional digit.  For a *)
(* value whose hundredths digit is not 5 this is rounding to the nearest   *)
(* tenth.  For a hundredths digit of 5 the direction depends on the        *)
(* float32 nearest to the value: Float32TieUp lists the magnitudes below   *)
(* 4.00 whose float32 is above the tie (0.15 is 0.15000000596) or is the   *)
(* tie exactly with an odd tenth below it (0.75 -> 0.8).                   *)
(***************************************************************************)
Float32TieUp == {5, 15, 55, 75, 85, 135, 145, 175, 185, 195, 215, 245, 265,
                 275, 295, 315, 345, 365, 375, 395}

Digit(d) == <<"0", "1", "2", "3", "4", "5", "6", "7", "8", "9">>[d + 1]

RECURSIVE Itoa(_)
Itoa(n) == IF n < 10 THEN Digit(n) ELSE Itoa(n \div 10) \o Digit(n % 10)

Abs(v) == IF v < 0 THEN 0 - v ELSE v

RoundTenth(a) ==
    LET q == a \div 10
        r == a % 10
    IN  IF r > 5 \/ (r = 5 /\ a \in Float32TieUp) THEN q + 1 ELSE q

FormatFloat(v) ==
    LET t == RoundTenth(Abs(v))
    IN  (IF v < 0 THEN "-" ELSE "") \o Itoa(t \div 10) \o "." \o Digit(t % 10)

(***************************************************************************)
(* topicName (src/hemtjanst.go): a name is a sequence of characters.       *)
(***************************************************************************)
Alphabet == {"A", "b", "Å", "å", "Ä", "ä", "Ö", "ö"}

Names == UNION {[1..n -> Alphabet] : n \in 1..MaxNameLen}

\* strings.ToLower, one character
LowerChar(c) ==
    CASE c = "A" -> "a"
      [] c = "Å" -> "å"
      [] c = "Ä" -> "ä"
      [] c = "Ö" -> "ö"
      [] OTHER -> c

ToLower(s) == [i \in 1..Len(s) |-> LowerChar(s[i])]

\* strings.ReplaceAll(s, old, new) for a one-character old
RECURSIVE ReplaceAll(_, _, _)
ReplaceAll(s, old, new) ==
    IF s = <<>> THEN <<>>
    ELSE (IF Head(s) = old THEN new ELSE <<Head(s)>>)
         \o ReplaceAll(Tail(s), old, new)

topicNameNoLower(n) ==
    ReplaceAll(ReplaceAll(ReplaceAll(n, "å", <<"a", "o">>),
                          "ä", <<"a", "e">>),
               "ö", <<"o", "e">>)

topicName(n) ==
    ReplaceAll(ReplaceAll(ReplaceAll(ToLower(n), "å", <<"a", "o">>),
                          "ä", <<"a", "e">>),
               "ö", <<"o", "e">>)

(***************************************************************************)
(* The upstream.  A record of a response is one station's measurepoint;    *)
(* the API returns at most one record per station, and a station's name    *)
(* is fixed upstream.                                                      *)
(***************************************************************************)
StationIds == {"s1", "s2"}

\* A *string that is nil: the Id of a record that carries none.
NilString == "<nil>"

\* The name of a station; the record without an Id is one of Lund.
NameOf(id) == IF id = "s2" THEN "Ystad" ELSE "Lund"

Ages == {60, 61}             \* minutes between the sample and the fetch
TempValues == {1234}         \* 12.34 degrees
RhValues == {8764}           \* 87.64 percent
PrecipValues == {12}         \* 0.12 mm in the last 30 minutes

\* Every combination of present and absent fields for a sample that is at
\* most an hour old; a sample older than that with every field present or
\* every field absent.
Records ==
    [id : StationIds, age : {a \in Ages : a <= OneHour},
     temp : {Some(v) : v \in TempValues} \cup {Nil},
     rh : {Some(v) : v \in RhValues} \cup {Nil},
     precip : {Some(v) : v \in PrecipValues} \cup {Nil}]
    \cup [id : StationIds, age : {a \in Ages : a > OneHour},
          temp : {Some(v) : v \in TempValues},
          rh : {Some(v) : v \in RhValues},
          precip : {Some(v) : v \in PrecipValues}]
    \cup [id : StationIds, age : {a \in Ages : a > OneHour},
          temp : {Nil}, rh : {Nil}, precip : {Nil}]

RecordLists ==
    {<<>>} \cup {<<r>> : r \in Records}
           \cup {p \in Records \X Records : p[1].id # p[2].id}

NoMsg == ""
Messages == {NoMsg, "bad filter"}

\* A sample of record lists carried by the responses that are rejected.
SomeRecords ==
    {<<>>, <<[id |-> "s1", age |-> 60, temp |-> Some(1234),
              rh |-> Some(8764), precip |-> Some(12)]>>}

\* A record of a sample that is not old, with every value but no Id.
NoIdRecord == [id |-> NilString, age |-> 60, temp |-> Some(1234),
               rh |-> Some(8764), precip |-> Some(12)]

\* net: the HTTP exchange succeeded; decodable: the body parses as the
\* format the daemon reads; nres: the number of entries of RESULT; msg: the
\* error message the payload carries (NoMsg: none); recs: the measurepoints
\* of the first result.
GoodResponses ==
    [net : {TRUE}, status : {StatusOK}, decodable : {TRUE}, nres : {1},
     msg : {NoMsg}, recs : RecordLists]

BadResponses ==
    [net : {FALSE}, status : {0}, decodable : {FALSE}, nres : {0},
     msg : {NoMsg}, recs : {<<>>}]
    \cup [net : {TRUE},
          status : {StatusOK, StatusBadRequest, StatusUnauthorized,
                    StatusServerError},
          decodable : {FALSE}, nres : {0}, msg : {NoMsg}, recs : {<<>>}]
    \cup [net : {TRUE},
          status : {StatusBadRequest, StatusUnauthorized, StatusServerError},
          decodable : {TRUE}, nres : {0, 1, 2}, msg : Messages,
          recs : SomeRecords]
    \cup [net : {TRUE}, status : {StatusOK}, decodable : {TRUE},
          nres : {0, 2}, msg : {NoMsg}, recs : SomeRecords]
    \cup [net : {TRUE}, status : {StatusOK}, decodable : {TRUE},
          nres : {1}, msg : {"bad filter"}, recs : {<<>>}]
    \cup [net : {TRUE}, status : {StatusOK}, decodable : {TRUE},
          nres : {1}, msg : {NoMsg}, recs : {<<NoIdRecord>>}]

Responses == GoodResponses \cup BadResponses

\* The -name flags the daemon is started with (at least one is required).
Selectors == {<<"Lund">>, <<"Lund", "Ystad">>}

Range(f) == {f[i] : i \in DOMAIN f}

\* The query filters on Or(Equal("Name", n) ...): the API answers with
\* records of stations that carry one of the names asked for.
Upstream(names) ==
    {r \in Responses :
        \A i \in 1..Len(r.recs) : NameOf(r.recs[i].id) \in Range(names)}

NoResp == [net |-> FALSE, status |-> 0, decodable |-> FALSE, nres |-> 0,
           msg |-> NoMsg, recs |-> <<>>]

(***************************************************************************)
(* retrieve: one HTTP exchange, decoded and filtered.  Its outcome is a    *)
(* returned error, a returned list of readings, or a panic (a nil pointer  *)
(* dereference or an index out of range), which ends the process.          *)
(***************************************************************************)
NoErr == [class |-> "none", code |-> 0, msg |-> NoMsg]
Err(class, code, msg) ==
    [kind |-> "err", err |-> [class |-> class, code |-> code, msg |-> msg],
     data |-> <<>>]
Panic == [kind |-> "panic", err |-> NoErr, data |-> <<>>]
Ok(readings) == [kind |-> "ok", err |-> NoErr, data |-> readings]

\* mp.Observation.Sample.Before(time.Now().Add(-1 * time.Hour))
IsStaleNever(r) == FALSE
IsStale(r) == r.age > OneHour

\* numRes != 1
WrongCardinalityOnlyZero(n) == n = 0
WrongCardinality(n) == n # 1

\* The sensor value of the XML daemon: the optional fields as they came.
XmlSensor(r) ==
    [id |-> r.id, name |-> NameOf(r.id), tempC |-> r.temp, rhPct |-> r.rh,
     precip |-> r.precip]

\* *mp.ID() and *mp.Name()
XmlDerefPanics(r) == r.id = NilString

\* The loop of the XML daemon's retrieve over Results[0].Data: the readings
\* appended, and whether a dereference panicked on the way.
RECURSIVE XmlReadings(_)
XmlReadings(recs) ==
    IF recs = <<>> THEN [panic |-> FALSE, out |-> <<>>]
    ELSE IF IsStale(Head(recs)) THEN XmlReadings(Tail(recs))
    ELSE IF XmlDerefPanics(Head(recs)) THEN [panic |-> TRUE, out |-> <<>>]
    ELSE LET rest == XmlReadings(Tail(recs))
         IN  [panic |-> rest.panic,
              out |-> IF rest.panic THEN <<>>
                      ELSE <<XmlSensor(Head(recs))>> \o rest.out]

XmlRetrieve(r) ==
    IF ~r.net THEN Err("transport", 0, NoMsg)
    ELSE IF ~r.decodable THEN Err("decode", 0, NoMsg)
    ELSE IF r.status # StatusOK \/ r.msg # NoMsg
         THEN Err("http", r.status, r.msg)
    ELSE IF WrongCardinality(r.nres) THEN Err("cardinality", r.nres, NoMsg)
    ELSE LET l == XmlReadings(r.recs)
         IN  IF l.panic THEN Panic ELSE Ok(l.out)

\* The precipitation of the JSON daemon: 0.0, or twice the 30 minute value.
JsonPrecipNotDoubled(r) == IF r.precip # Nil THEN Deref(r.precip) ELSE 0
JsonPrecip(r) == IF r.precip # Nil THEN Deref(r.precip) * 2 ELSE 0

\* *mp.ID, *mp.Name, *mp.Observation.Air.Temperature.Value and
\* *mp.Observation.Air.RelativeHumidity.Value
JsonDerefPanics(r) == r.id = NilString \/ r.temp = Nil \/ r.rh = Nil

JsonData(r) ==
    [id |-> r.id, name |-> NameOf(r.id), tempC |-> Deref(r.temp),
     rhPct |-> Deref(r.rh), precip |-> JsonPrecip(r)]

\* The loop of the JSON daemon's retrieve over Result[0].Measurepoints: the
\* readings appended, and whether a dereference panicked on the way.
RECURSIVE JsonReadings(_)
JsonReadings(recs) ==
    IF recs = <<>> THEN [panic |-> FALSE, out |-> <<>>]
    ELSE IF IsStale(Head(recs)) THEN JsonReadings(Tail(recs))
    ELSE IF JsonDerefPanics(Head(recs)) THEN [panic |-> TRUE, out |-> <<>>]
    ELSE LET rest == JsonReadings(Tail(recs))
         IN  [panic |-> rest.panic,
              out |-> IF rest.panic THEN <<>>
                      ELSE <<JsonData(Head(recs))>> \o rest.out]

JsonRetrieve(r) ==
    IF ~r.net THEN Err("transport", 0, NoMsg)
    ELSE IF r.status = StatusUnauthorized THEN Err("auth", 0, NoMsg)
    ELSE IF r.status = StatusBadRequest
         THEN IF ~r.decodable THEN Err("decodeApiError", 0, NoMsg)
              ELSE IF r.nres = 0 THEN Panic   \* e.Response.Result[0]
              ELSE Err("badRequest", 0, r.msg)
    ELSE IF r.status # StatusOK THEN Err("status", r.status, NoMsg)
    ELSE IF ~r.decodable THEN Err("decode", 0, NoMsg)
    ELSE IF WrongCardinality(r.nres) THEN Err("cardinality", r.nres, NoMsg)
    ELSE LET l == JsonReadings(r.recs)
         IN  IF l.panic THEN Panic ELSE Ok(l.out)

retrieve(v, r) == IF v = "xml" THEN XmlRetrieve(r) ELSE JsonRetrieve(r)

(***************************************************************************)
(* update: the publish calls of one reading, in the order they are made.   *)
(***************************************************************************)
Pub(id, feature, value) == [id |-> id, feature |-> feature, value |-> value]

\* precip := 0.0; if item.precip != nil { precip = *item.precip * 2 }
XmlPrecip(item) == IF item.precip # Nil THEN Deref(item.precip) * 2 ELSE 0

XmlPrecipPubsIfPresent(item) ==
    IF item.precip # Nil
    THEN <<Pub(item.id, "precipitation", FormatFloat(Deref(item.precip) * 2))>>
    ELSE <<>>
XmlPrecipPubs(item) ==
    <<Pub(item.id, "precipitation", FormatFloat(XmlPrecip(item)))>>

XmlTempPubs(item) ==
    IF item.tempC # Nil
    THEN <<Pub(item.id, "currentTemperature",
               FormatFloat(Deref(item.tempC)))>>
    ELSE <<>>

XmlRhPubs(item) ==
    IF item.rhPct # Nil
    THEN <<Pub(item.id, "currentRelativeHumidity",
               FormatFloat(Deref(item.rhPct)))>>
    ELSE <<>>

XmlItemPubs(item) == XmlTempPubs(item) \o XmlRhPubs(item) \o XmlPrecipPubs(item)

JsonItemPubs(item) ==
    <<Pub(item.id, "currentTemperature", FormatFloat(item.tempC)),
      Pub(item.id, "currentRelativeHumidity", FormatFloat(item.rhPct)),
      Pub(item.id, "precipitation", FormatFloat(item.precip))>>

\* station, ok := stations[item.id]; if !ok { continue }
ItemPubs(v, item, reg) ==
    IF item.id \notin DOMAIN reg THEN <<>>
    ELSE IF v = "xml" THEN XmlItemPubs(item) ELSE JsonItemPubs(item)

\* Each Update call is followed by if err != nil { log.Printf(...) } and
\* nothing else: the calls attempted of a reading's calls, given the
\* positions of those that return an error.
AttemptedUntilFailure(calls, fails) ==
    IF fails = {} THEN calls
    ELSE SubSeq(calls, 1, CHOOSE k \in fails : \A j \in fails : k <= j)
Attempted(calls, fails) == calls

\* for _, item := range sensors: the loop has gone through every item
RangeDoneAfterFirst(i, items) == i > Len(items) \/ i > 1
RangeDone(i, items) == i > Len(items)

(***************************************************************************)
(* The process.                                                            *)
(***************************************************************************)
Running == exitCode = -1

Exit(code, by) == exitCode' = code /\ exitBy' = by

\* newWeatherStation(item.name, item.id, m)
newWeatherStation(n, id) == [topic |-> id, name |-> n]

\* for _, item := range data { stations[item.id] = newWeatherStation(...) }
BuildStationsFirstOnly(reg, items) ==
    IF items = <<>> THEN reg
    ELSE [id \in {Head(items).id} |->
             [topic |-> id, name |-> Head(items).name]]

RECURSIVE BuildStations(_, _)
BuildStations(reg, items) ==
    IF items = <<>> THEN reg
    ELSE LET item == Head(items)
             dev == newWeatherStation(item.name, item.id)
         IN  BuildStations(
                 [id \in DOMAIN reg \cup {item.id} |->
                     IF id = item.id THEN dev ELSE reg[id]],
                 Tail(items))

EmptyRegistry == [id \in {} |-> newWeatherStation("", "")]

\* for _, id := range stationNames { if _, ok := stations[id]; !ok {...} }
RECURSIVE NotFound(_, _)
NotFound(reg, names) ==
    IF names = <<>> THEN <<>>
    ELSE (IF Head(names) \notin DOMAIN reg THEN <<Head(names)>> ELSE <<>>)
         \o NotFound(reg, Tail(names))

\* if len(stations) != len(stationNames) { ...; log.Printf(...) }
Diagnostic(reg, names) ==
    IF Cardinality(DOMAIN reg) # Len(names) THEN Some(NotFound(reg, names))
    ELSE Nil

Init ==
    /\ variant \in {"xml", "json"}
    /\ stationNames \in Selectors
    /\ pc = "initFetch"
    /\ resp = NoResp
    /\ fetched = "none"
    /\ fetchErr = NoErr
    /\ data = <<>>
    /\ idx = 0
    /\ stations = EmptyRegistry
    /\ registered = FALSE
    /\ notfound = Nil
    /\ pubs = <<>>
    /\ pubFailed = FALSE
    /\ ctxDone = FALSE
    /\ woken = "none"
    /\ pollRemaining = 0
    /\ mqttCreated = FALSE
    /\ connPc = "notStarted"
    /\ startOk = FALSE
    /\ sawCancel = FALSE
    /\ sleepRemaining = 0
    /\ established = FALSE
    /\ exitCode = -1
    /\ exitBy = "none"
    /\ initFetches = 0
    /\ prevFailed = FALSE
    /\ intAt = "none"
    /\ name = <<>>
    /\ topic = <<>>

\* The select statement is entered: a new time.After(10 * time.Minute) is
\* created, and a context that is already cancelled is ready at once.
EnterSelectStale ==
    /\ pc' = "select"
    /\ pollRemaining' = pollRemaining
    /\ woken' = IF ctxDone THEN "done"
                ELSE IF pollRemaining = 0 THEN "timer" ELSE "none"
EnterSelect ==
    /\ pc' = "select"
    /\ pollRemaining' = PollInterval
    /\ woken' = IF ctxDone THEN "done" ELSE "none"

\* data, err := retrieve(...) at startup: an error is fatal.
InitialFetchKeepGoing(o) ==
    /\ pc' = "mqttNew"
    /\ UNCHANGED exitVars
InitialFetchFailed(o) ==
    /\ pc' = "exited"
    /\ Exit(1, "initFetchFatal")

InitialFetch(r) ==
    /\ Running /\ pc = "initFetch"
    /\ r \in Upstream(stationNames)
    /\ LET o == retrieve(variant, r)
       IN  /\ resp' = r
           /\ fetched' = o.kind
           /\ fetchErr' = o.err
           /\ data' = o.data
           /\ initFetches' = initFetches + 1
           /\ CASE o.kind = "err" -> InitialFetchFailed(o)
                [] o.kind = "panic" -> pc' = "exited" /\ Exit(2, "panic")
                [] OTHER -> pc' = "mqttNew" /\ UNCHANGED exitVars
    /\ UNCHANGED <<cfgVars, idx, stations, registered, notfound, pubs,
                   pubFailed, ctxDone, woken, pollRemaining, mqttCreated,
                   connVars, prevFailed, intAt, topicVars>>

\* m, err := mqtt.New(ctx, mcfg())
MqttNew(ok) ==
    /\ Running /\ pc = "mqttNew"
    /\ IF ok THEN /\ mqttCreated' = TRUE
                  /\ pc' = "spawn"
                  /\ UNCHANGED exitVars
             ELSE /\ mqttCreated' = FALSE
                  /\ pc' = "exited"
                  /\ Exit(1, "mqttNewFatal")
    /\ UNCHANGED <<cfgVars, resp, fetched, fetchErr, data, idx, stations,
                   registered, notfound, pubs, pubFailed, ctxDone, woken,
                   pollRemaining, connVars, initFetches, prevFailed, intAt,
                   topicVars>>

\* go func() { for { ok, err := m.Start() ... } }()
Spawn ==
    /\ Running /\ pc = "spawn"
    /\ connPc' = "start"
    /\ pc' = "register"
    /\ UNCHANGED <<cfgVars, resp, fetched, fetchErr, data, idx, stations,
                   registered, notfound, pubs, pubFailed, ctxDone, woken,
                   pollRemaining, mqttCreated, startOk, sawCancel,
                   sleepRemaining, established, exitVars, initFetches,
                   prevFailed, intAt, topicVars>>

\* stations := map[string]client.Device{} and the loop that fills it, the
\* "could not be found" diagnostic, up to the call of update(data, stations).
Register ==
    /\ Running /\ pc = "register"
    /\ stations' = BuildStations(EmptyRegistry, data)
    /\ registered' = TRUE
    /\ notfound' = Diagnostic(stations', stationNames)
    /\ pc' = "update"
    /\ idx' = 1
    /\ pubs' = <<>>
    /\ pubFailed' = FALSE
    /\ UNCHANGED <<cfgVars, resp, fetched, fetchErr, data, ctxDone, woken,
                   pollRemaining, mqttCreated, connVars, exitVars,
                   initFetches, prevFailed, intAt, topicVars>>

\* One iteration of update's loop: the publish calls for data[idx].  fails
\* is the set of positions (1..3 within this reading) whose Update call
\* returns an error; the error is logged and nothing else.
UpdateItem(fails) ==
    /\ Running /\ pc = "update" /\ ~RangeDone(idx, data)
    /\ LET calls == ItemPubs(variant, data[idx], stations)
       IN  /\ fails \subseteq 1..Len(calls)
           /\ pubs' = pubs \o Attempted(calls, fails)
           /\ pubFailed' = (pubFailed \/ fails # {})
    /\ idx' = idx + 1
    /\ UNCHANGED <<cfgVars, pc, resp, fetched, fetchErr, data, stations,
                   registered, notfound, ctxDone, woken, pollRemaining,
                   mqttCreated, connVars, exitVars, initFetches, prevFailed,
                   intAt, topicVars>>

\* update returns and main reaches the select of its loop.
UpdateReturn ==
    /\ Running /\ pc = "update" /\ RangeDone(idx, data)
    /\ EnterSelect
    /\ resp' = NoResp
    /\ fetched' = "none"
    /\ fetchErr' = NoErr
    /\ data' = <<>>
    /\ idx' = 0
    /\ pubs' = <<>>
    /\ pubFailed' = FALSE
    /\ prevFailed' = FALSE
    /\ UNCHANGED <<cfgVars, stations, registered, notfound, ctxDone,
                   mqttCreated, connVars, exitVars, initFetches, intAt,
                   topicVars>>

\* case <-ctx.Done(): log, break loop, os.Exit(0)
SelectDone ==
    /\ Running /\ pc = "select" /\ woken = "done"
    /\ pc' = "exited"
    /\ Exit(0, "shutdown")
    /\ UNCHANGED <<cfgVars, resp, fetched, fetchErr, data, idx, stations,
                   registered, notfound, pubs, pubFailed, ctxDone, woken,
                   pollRemaining, mqttCreated, connVars, initFetches,
                   prevFailed, intAt, topicVars>>

\* case <-time.After(...): retrieve is called, the request goes out
SelectTimer ==
    /\ Running /\ pc = "select" /\ woken = "timer"
    /\ pc' = "fetch"
    /\ woken' = "none"
    /\ resp' = NoResp
    /\ fetched' = "none"
    /\ fetchErr' = NoErr
    /\ UNCHANGED <<cfgVars, data, idx, stations, registered, notfound, pubs,
                   pubFailed, ctxDone, pollRemaining, mqttCreated, connVars,
                   exitVars, initFetches, prevFailed, intAt, topicVars>>

\* data, err := retrieve(...) in the loop: an error is logged, and continue
\* goes back to the select.
PeriodicFetchFailed(o) ==
    /\ EnterSelect
    /\ UNCHANGED exitVars
    /\ prevFailed' = TRUE

PeriodicFetch(r) ==
    /\ Running /\ pc = "fetch"
    /\ r \in Upstream(stationNames)
    /\ LET o == retrieve(variant, r)
       IN  /\ resp' = r
           /\ fetched' = o.kind
           /\ fetchErr' = o.err
           /\ data' = o.data
           /\ CASE o.kind = "err" -> PeriodicFetchFailed(o) /\ idx' = 0
                [] o.kind = "panic" ->
                     /\ pc' = "exited" /\ Exit(2, "panic")
                     /\ idx' = 0
                     /\ UNCHANGED <<woken, pollRemaining, prevFailed>>
                [] OTHER ->
                     /\ pc' = "update"
                     /\ idx' = 1
                     /\ UNCHANGED <<woken, pollRemaining, prevFailed, exitVars>>
    /\ pubs' = <<>>
    /\ pubFailed' = FALSE
    /\ UNCHANGED <<cfgVars, stations, registered, notfound, ctxDone,
                   mqttCreated, connVars, initFetches, intAt, topicVars>>

(***************************************************************************)
(* The connection goroutine.                                               *)
(***************************************************************************)
\* if !ok && ctx.Err() == nil { log.Fatalln(...) }
MustDieIgnoringCtx(ok, cancelled) == ~ok
MustDie(ok, cancelled) == ~ok /\ ~cancelled

\* m.Start() returns: the connection was lost, or was never made.  The
\* error it returns is logged and has no other effect.
StartReturns(ok) ==
    /\ Running /\ connPc \in {"start", "restart"}
    /\ connPc' = "check"
    /\ startOk' = ok
    /\ UNCHANGED <<cfgVars, mainVars, ctxDone, sawCancel, sleepRemaining,
                   established, exitVars, intAt, topicVars>>

\* Inside m.Start(): the connection to the broker is made.
Connect ==
    /\ Running /\ connPc \in {"start", "restart"} /\ ~established
    /\ established' = TRUE
    /\ UNCHANGED <<cfgVars, mainVars, ctxDone, connPc, startOk, sawCancel,
                   sleepRemaining, exitVars, intAt, topicVars>>

\* The condition of the if is evaluated; ctx.Err() is read here.
ConnCheck ==
    /\ Running /\ connPc = "check"
    /\ sawCancel' = ctxDone
    /\ IF MustDie(startOk, ctxDone)
       THEN connPc' = "fatal" /\ UNCHANGED sleepRemaining
       ELSE connPc' = "sleep" /\ sleepRemaining' = ReconnectDelay
    /\ UNCHANGED <<cfgVars, mainVars, ctxDone, startOk, established, exitVars,
                   intAt, topicVars>>

\* log.Fatalln("MQTT: could not (re)connect")
ConnFatal ==
    /\ Running /\ connPc = "fatal"
    /\ connPc' = "exited"
    /\ Exit(1, "mqttFatal")
    /\ UNCHANGED <<cfgVars, mainVars, ctxDone, startOk, sawCancel,
                   sleepRemaining, established, intAt, topicVars>>

\* time.Sleep has returned: log "reconnecting", next iteration, m.Start()
\* ("restart" is m.Start() called again, "start" its first call).
ConnLoop == connPc' = "restart"

ConnWake ==
    /\ Running /\ connPc = "sleep" /\ sleepRemaining = 0
    /\ ConnLoop
    /\ startOk' = FALSE
    /\ sawCancel' = FALSE
    /\ UNCHANGED <<cfgVars, mainVars, ctxDone, sleepRemaining, established,
                   exitVars, intAt, topicVars>>

(***************************************************************************)
(* The environment: the interrupt signal and the passage of time.          *)
(***************************************************************************)
Waiting == pc = "select" /\ woken = "none"
Sleeping == connPc = "sleep" /\ sleepRemaining > 0

\* SIGINT: signal.NotifyContext cancels ctx; a select blocked on ctx.Done()
\* is woken by it.
Interrupt ==
    /\ Running /\ ~ctxDone
    /\ ctxDone' = TRUE
    /\ intAt' = IF Waiting THEN "waiting" ELSE "busy"
    /\ woken' = IF Waiting THEN "done" ELSE woken
    /\ UNCHANGED <<cfgVars, pc, resp, fetched, fetchErr, data, idx, stations,
                   registered, notfound, pubs, pubFailed, pollRemaining,
                   mqttCreated, connVars, exitVars, initFetches, prevFailed,
                   topicVars>>

\* Tick seconds pass for every running timer; a poll timer that runs out
\* wakes the select.
Advance ==
    /\ Running
    /\ Waiting \/ Sleeping
    /\ IF Waiting
       THEN /\ pollRemaining' = Max(0, pollRemaining - Tick)
            /\ woken' = IF pollRemaining <= Tick THEN "timer" ELSE "none"
       ELSE UNCHANGED <<pollRemaining, woken>>
    /\ IF Sleeping
       THEN sleepRemaining' = Max(0, sleepRemaining - Tick)
       ELSE UNCHANGED sleepRemaining
    /\ UNCHANGED <<cfgVars, pc, resp, fetched, fetchErr, data, idx, stations,
                   registered, notfound, pubs, pubFailed, ctxDone,
                   mqttCreated, connPc, startOk, sawCancel, established,
                   exitVars, initFetches, prevFailed, intAt, topicVars>>

Next ==
    \/ \E r \in Responses : InitialFetch(r)
    \/ \E ok \in BOOLEAN : MqttNew(ok)
    \/ Spawn
    \/ Register
    \/ \E fails \in SUBSET (1..3) : UpdateItem(fails)
    \/ UpdateReturn
    \/ SelectDone
    \/ SelectTimer
    \/ \E r \in Responses : PeriodicFetch(r)
    \/ Connect
    \/ \E ok \in BOOLEAN : StartReturns(ok)
    \/ ConnCheck
    \/ ConnFatal
    \/ ConnWake
    \/ Interrupt
    \/ Advance

Spec == Init /\ [][Next]_vars

(***************************************************************************)
(* The transliteration harness: topicName applied to a station name.       *)
(***************************************************************************)
Oesterlen == <<"Ö", "s", "t", "e", "r", "l", "e", "n">>

InitTopic ==
    /\ variant = "xml"
    /\ stationNames = <<>>
    /\ pc = "topic"
    /\ resp = NoResp
    /\ fetched = "none"
    /\ fetchErr = NoErr
    /\ data = <<>>
    /\ idx = 0
    /\ stations = EmptyRegistry
    /\ registered = FALSE
    /\ notfound = Nil
    /\ pubs = <<>>
    /\ pubFailed = FALSE
    /\ ctxDone = FALSE
    /\ woken = "none"
    /\ pollRemaining = 0
    /\ mqttCreated = FALSE
    /\ connPc = "notStarted"
    /\ startOk = FALSE
    /\ sawCancel = FALSE
    /\ sleepRemaining = 0
    /\ established = FALSE
    /\ exitCode = -1
    /\ exitBy = "none"
    /\ initFetches = 0
    /\ prevFailed = FALSE
    /\ intAt = "none"
    /\ name \in Names \cup {Oesterlen}
    /\ topic = <<>>

\* Topic: fmt.Sprintf("sensor/temperature/%s", topicName(name))
ApplyTopicName ==
    /\ pc = "topic"
    /\ topic' = topicName(name)
    /\ UNCHANGED <<cfgVars, mainVars, ctxDone, connVars, exitVars, intAt, name>>

NextTopic == ApplyTopicName

SpecTopic == InitTopic /\ [][NextTopic]_vars

(***************************************************************************)
(* Vocabulary of the properties, in terms of the upstream response.        *)
(***************************************************************************)
SampleIsOld(r) == r.age > OneHour

RECURSIVE FreshIds(_)
FreshIds(recs) ==
    IF recs = <<>> THEN <<>>
    ELSE (IF SampleIsOld(Head(recs)) THEN <<>> ELSE <<Head(recs).id>>)
         \o FreshIds(Tail(recs))

IdsOf(items) == [i \in 1..Len(items) |-> items[i].id]

PubsOf(id, feature) ==
    {k \in 1..Len(pubs) : pubs[k].id = id /\ pubs[k].feature = feature}

PubsOfStation(id) == {k \in 1..Len(pubs) : pubs[k].id = id}

\* update has gone through every reading of this cycle
CycleDone == pc = "update" /\ idx > Len(data)

\* a 200 response with one result set and no error in it
WellFormed(r) ==
    r.net /\ r.status = StatusOK /\ r.decodable /\ r.nres = 1 /\ r.msg = NoMsg

\* retrieve decodes the body as a result envelope: the XML daemon whatever
\* the status, the JSON daemon once the status is 200
DecodedResult(v, r) ==
    r.net /\ r.decodable /\ (v = "json" => r.status = StatusOK)

\* What a cycle is to publish for a response: per record that is not old
\* and whose station is registered, the temperature and the humidity when
\* present, and the precipitation (twice the 30 minute value, or 0).
RECURSIVE ExpectedPubs(_, _)
ExpectedPubs(recs, reg) ==
    IF recs = <<>> THEN <<>>
    ELSE LET r == Head(recs)
             t == IF r.temp = Nil THEN <<>>
                  ELSE <<Pub(r.id, "currentTemperature",
                             FormatFloat(r.temp[1]))>>
             h == IF r.rh = Nil THEN <<>>
                  ELSE <<Pub(r.id, "currentRelativeHumidity",
                             FormatFloat(r.rh[1]))>>
             p == <<Pub(r.id, "precipitation",
                        FormatFloat(IF r.precip = Nil THEN 0
                                    ELSE 2 * r.precip[1]))>>
         IN  (IF SampleIsOld(r) \/ r.id \notin DOMAIN reg THEN <<>>
              ELSE t \o h \o p)
             \o ExpectedPubs(Tail(recs), reg)

(***************************************************************************)
(* C1.  A record whose sample is more than an hour older than the fetch is *)
(* not among the readings retrieve returns, whatever its other fields, and *)
(* nothing is published for its station in that cycle; the records that    *)
(* are not old are returned, in the order of the response.                 *)
(***************************************************************************)
C1_StaleReadingsDropped ==
    fetched = "ok" =>
        /\ IdsOf(data) = FreshIds(resp.recs)
        /\ \A i \in 1..Len(resp.recs) :
              SampleIsOld(resp.recs[i]) =>
                  /\ \A j \in 1..Len(data) : data[j].id # resp.recs[i].id
                  /\ PubsOfStation(resp.recs[i].id) = {}

\* The two-station poll: both stations registered, one record old, the
\* other fresh with temperature 12.34, published as "12.3".
C1_Witness ==
    /\ fetched = "ok" /\ CycleDone /\ Len(resp.recs) = 2
    /\ DOMAIN stations = StationIds
    /\ \E i, j \in 1..2 :
          /\ SampleIsOld(resp.recs[i])
          /\ ~SampleIsOld(resp.recs[j])
          /\ resp.recs[j].temp = Some(1234)
          /\ \E k \in 1..Len(pubs) :
                pubs[k] = Pub(resp.recs[j].id, "currentTemperature", "12.3")

(***************************************************************************)
(* C2.  A fresh record without temperature (or without humidity) is        *)
(* returned with that field absent; nothing is published for that feature, *)
(* the process does not crash, and the other features of the reading are   *)
(* published.                                                              *)
(***************************************************************************)
C2_AbsentFieldSkipsOnlyThatFeature ==
    \A i \in 1..Len(resp.recs) :
        LET r == resp.recs[i]
        IN  (/\ fetched # "none" /\ WellFormed(resp)
             /\ ~SampleIsOld(r)
             /\ (r.temp = Nil \/ r.rh = Nil))
            => /\ fetched = "ok"
               /\ exitBy # "panic"
               /\ \E j \in 1..Len(data) :
                     /\ data[j].id = r.id
                     /\ r.temp = Nil => data[j].tempC = Nil
                     /\ r.rh = Nil => data[j].rhPct = Nil
               /\ r.temp = Nil => PubsOf(r.id, "currentTemperature") = {}
               /\ r.rh = Nil => PubsOf(r.id, "currentRelativeHumidity") = {}
               /\ (CycleDone /\ r.id \in DOMAIN stations) =>
                     /\ PubsOf(r.id, "precipitation") # {}
                     /\ r.temp # Nil
                           => PubsOf(r.id, "currentTemperature") # {}
                     /\ r.rh # Nil
                           => PubsOf(r.id, "currentRelativeHumidity") # {}

(***************************************************************************)
(* C3.  For every reading whose station is registered the cycle makes      *)
(* exactly one precipitation publish, whether or not temperature and       *)
(* humidity are present, and when the precipitation is absent upstream the *)
(* value published is the string "0.0".                                    *)
(***************************************************************************)
C3_OnePrecipitationPerReading ==
    fetched = "ok" =>
        \A j \in 1..Len(data) :
            data[j].id \in DOMAIN stations =>
                LET ks == PubsOf(data[j].id, "precipitation")
                IN  /\ Cardinality(ks) = IF j < idx THEN 1 ELSE 0
                    /\ \A k \in ks :
                          \A i \in 1..Len(resp.recs) :
                              (/\ resp.recs[i].id = data[j].id
                               /\ resp.recs[i].precip = Nil)
                              => pubs[k].value = "0.0"

\* A registered station's reading without temperature, humidity and
\* precipitation: "0.0" is its only publish.
C3_Witness ==
    /\ fetched = "ok" /\ CycleDone
    /\ \E i \in 1..Len(resp.recs) :
          /\ ~SampleIsOld(resp.recs[i])
          /\ resp.recs[i].id \in DOMAIN stations
          /\ resp.recs[i].temp = Nil /\ resp.recs[i].rh = Nil
          /\ resp.recs[i].precip = Nil
          /\ \E k \in 1..Len(pubs) :
                pubs[k] = Pub(resp.recs[i].id, "precipitation", "0.0")
          /\ Cardinality(PubsOfStation(resp.recs[i].id)) = 1

(***************************************************************************)
(* C4.  When the decoded response holds a number of result sets other than *)
(* one, retrieve returns an error and no readings, and the cycle publishes *)
(* nothing.                                                                *)
(***************************************************************************)
C4_WrongResultCountIsAnError ==
    (fetched # "none" /\ DecodedResult(variant, resp) /\ resp.nres # 1) =>
        /\ fetched = "err"
        /\ data = <<>>
        /\ pubs = <<>>
        /\ pc \in {"select", "exited"}

\* A periodic fetch answered 200 with two result sets, the first holding a
\* fresh record of a registered station: rejected, back in the select.
C4_Witness ==
    /\ fetched = "err" /\ fetchErr.class = "cardinality" /\ fetchErr.code = 2
    /\ resp.status = StatusOK /\ resp.nres = 2 /\ resp.recs # <<>>
    /\ resp.recs[1].id \in DOMAIN stations
    /\ pc = "select" /\ pubs = <<>>

(***************************************************************************)
(* C5.  A response with a status other than 200 is classified by its       *)
(* status alone, and no readings are returned: 401 is an authentication    *)
(* error, 400 an error carrying the message of the error payload, any      *)
(* other status a generic error carrying the status code, whether or not   *)
(* the body decodes.                                                       *)
(***************************************************************************)
C5_ErrorClassifiedByStatusAlone ==
    (fetched # "none" /\ resp.net /\ resp.status # StatusOK) =>
        /\ fetched # "ok"
        /\ data = <<>>
        /\ CASE resp.status = StatusUnauthorized ->
                    fetched = "err" /\ fetchErr.class = "auth"
             [] resp.status = StatusBadRequest ->
                    \* the payload has a message field
                    (resp.decodable /\ resp.nres >= 1) =>
                        fetched = "err" /\ fetchErr.msg = resp.msg
             [] OTHER -> /\ fetched = "err"
                         /\ fetchErr.class \in {"status", "http"}
                         /\ fetchErr.code = resp.status

(***************************************************************************)
(* C6.  topicName returns the name in lower case with every a-ring         *)
(* replaced by "ao", every a-umlaut by "ae" and every o-umlaut by "oe",    *)
(* the other characters kept in order; the result holds none of these      *)
(* letters in either case, and "Österlen" gives "oesterlen".               *)
(***************************************************************************)
TranslitChar(c) ==
    CASE c \in {"Å", "å"} -> <<"a", "o">>
      [] c \in {"Ä", "ä"} -> <<"a", "e">>
      [] c \in {"Ö", "ö"} -> <<"o", "e">>
      [] c = "A" -> <<"a">>
      [] OTHER -> <<c>>

RECURSIVE Translit(_)
Translit(s) ==
    IF s = <<>> THEN <<>> ELSE TranslitChar(Head(s)) \o Translit(Tail(s))

C6_TopicNameTransliterates ==
    topic # <<>> =>
        /\ topic = Translit(name)
        /\ \A i \in 1..Len(topic) :
              topic[i] \notin {"Å", "å", "Ä", "ä", "Ö", "ö", "A"}
        /\ name = Oesterlen
              => topic = <<"o", "e", "s", "t", "e", "r", "l", "e", "n">>

C6_Witness ==
    /\ name = Oesterlen
    /\ topic = <<"o", "e", "s", "t", "e", "r", "l", "e", "n">>

(***************************************************************************)
(* C7.  When the interrupt arrives while main is blocked in the select,    *)
(* main starts no other fetch and the process ends with exit code 0, and   *)
(* never with another code, however the connection goroutine interleaves.  *)
(***************************************************************************)
C7_InterruptWhileWaitingExitsZero ==
    intAt = "waiting" =>
        /\ pc \in {"select", "exited"}
        /\ exitCode \in {-1, 0}

(***************************************************************************)
(* C8.  When the startup fetch returns an error the process ends with a    *)
(* non-zero exit code, having created no MQTT transport, started no        *)
(* connection goroutine, registered no device and published nothing, and   *)
(* the startup fetch is issued once only.                                  *)
(***************************************************************************)
C8_InitialFetchErrorIsFatal ==
    /\ initFetches <= 1
    /\ (fetched = "err" /\ ~registered) =>
          /\ pc = "exited"
          /\ exitCode = 1 /\ exitBy = "initFetchFatal"
          /\ ~mqttCreated
          /\ connPc = "notStarted"
          /\ stations = EmptyRegistry
          /\ pubs = <<>>
          /\ initFetches = 1

C8_Witness ==
    /\ exitBy = "initFetchFatal" /\ exitCode = 1
    /\ resp.net /\ resp.status = StatusServerError
    /\ initFetches = 1

(***************************************************************************)
(* C9.  A periodic fetch that returns an error publishes nothing, leaves   *)
(* the process running with its registry and its connection goroutine as   *)
(* they were, and puts main back in the select with a new timer of a full  *)
(* poll interval; a fetch is issued only when that timer has run out.  A   *)
(* cycle whose fetch succeeds publishes what its response and the registry *)
(* determine, whether or not the cycle before it failed.                   *)
(***************************************************************************)
C9_FailedFetchStep ==
    (pc = "fetch" /\ fetched' = "err") =>
        /\ pc' = "select"
        /\ pubs' = <<>>
        /\ exitCode' = -1
        /\ pollRemaining' = PollInterval
        /\ woken' \in {"none", "done"}
        /\ stations' = stations
        /\ connVars' = connVars

C9_FetchOnlyOnTimer ==
    (pc # "fetch" /\ pc' = "fetch") =>
        pc = "select" /\ woken = "timer" /\ pollRemaining = 0

C9_TimerCountsDown ==
    (pc = "select" /\ pc' = "select" /\ pollRemaining' # pollRemaining) =>
        /\ pollRemaining' = Max(0, pollRemaining - Tick)
        /\ sleepRemaining' <= sleepRemaining

C9_FailedCycleHasNoEffect ==
    /\ [][C9_FailedFetchStep /\ C9_FetchOnlyOnTimer /\ C9_TimerCountsDown]_vars
    /\ [](CycleDone => pubs = ExpectedPubs(resp.recs, stations))

\* A cycle has published for a registered station after the cycle before
\* it failed.
C9_Witness ==
    /\ prevFailed /\ CycleDone /\ exitCode = -1
    /\ pubs # <<>> /\ pubs = ExpectedPubs(resp.recs, stations)

(***************************************************************************)
(* C10.  The connection goroutine retries without bound: whenever          *)
(* m.Start() has returned and the goroutine does not end the process, it   *)
(* sleeps the fixed delay and calls m.Start() again; it ends the process   *)
(* only when m.Start() returned ok = false (could not connect) and the     *)
(* context was not cancelled when it looked.                               *)
(***************************************************************************)
C10_CheckStep ==
    (connPc = "check" /\ connPc' # "check") =>
        IF ~startOk /\ ~ctxDone
        THEN connPc' = "fatal"
        ELSE connPc' = "sleep" /\ sleepRemaining' = ReconnectDelay

C10_SleepStep ==
    (connPc = "sleep" /\ connPc' # "sleep") =>
        sleepRemaining = 0 /\ connPc' = "restart"

C10_SleepCountsDown ==
    (connPc = "sleep" /\ sleepRemaining' # sleepRemaining) =>
        sleepRemaining' = Max(0, sleepRemaining - Tick)

C10_ConnectionRetriedForever ==
    /\ [][C10_CheckStep /\ C10_SleepStep /\ C10_SleepCountsDown]_vars
    /\ []((Running /\ connPc = "sleep" /\ sleepRemaining = 0)
              => ENABLED ConnWake)
    /\ []((Running /\ connPc \in {"start", "restart"})
              => ENABLED (\E ok \in BOOLEAN : StartReturns(ok)))
    /\ [](exitBy = "mqttFatal" =>
              exitCode = 1 /\ connPc = "exited" /\ ~startOk /\ ~sawCancel)
    /\ [](connPc = "exited" => exitBy = "mqttFatal")

\* m.Start() called again after it had returned an error with ok = true.
C10_Witness == connPc = "restart" /\ exitCode = -1 /\ ~ctxDone

(***************************************************************************)
(* C11.  Once the interrupt has been received main starts no other fetch,  *)
(* also when the poll timer ran out just before; an update pass that is in *)
(* progress is left only when it has gone through every reading, and main  *)
(* ends the process with exit code 0 only.                                 *)
(***************************************************************************)
C11_NoFetchStarted == (ctxDone /\ pc # "fetch") => pc' # "fetch"

C11_UpdateRunsToCompletion ==
    (ctxDone /\ pc = "update" /\ pc' # "update") =>
        idx > Len(data) /\ pc' = "select"

C11_MainExitsZero ==
    (ctxDone /\ registered /\ pc # "exited" /\ pc' = "exited"
     /\ exitBy' # "panic") => exitCode' = 0

C11_NoNewCycleAfterInterrupt ==
    [][C11_NoFetchStarted /\ C11_UpdateRunsToCompletion
       /\ C11_MainExitsZero]_vars

(***************************************************************************)
(* C12.  After the interrupt main leaves its loop, and the connection      *)
(* goroutine, once it has seen the context cancelled, does not call        *)
(* m.Start() again.                                                        *)
(***************************************************************************)
C12_NoStartAfterCancelSeen ==
    (sawCancel /\ connPc # "restart") => connPc' # "restart"

C12_MainLeavesLoop ==
    (ctxDone /\ pc = "select" /\ pc' # "select") =>
        pc' \in {"exited", "fetch"}

C12_CancellationStopsBothTasks ==
    [][C12_NoStartAfterCancelSeen /\ C12_MainLeavesLoop]_vars

(***************************************************************************)
(* C13.  A fetch that is in flight or about to be issued when the context  *)
(* is cancelled ends with an error: retrieve returns no readings once the  *)
(* interrupt has been received.                                            *)
(***************************************************************************)
C13_FetchStep ==
    (ctxDone /\ pc \in {"initFetch", "fetch"} /\ pc' # pc) =>
        fetched' = "err" /\ data' = <<>>

C13_FetchHonoursCancellation == [][C13_FetchStep]_vars

(***************************************************************************)
(* C14.  The registry is built once, from the readings of the startup      *)
(* fetch, with one device per station id of those readings, and it never   *)
(* changes afterwards.  In every cycle a reading whose station is not in   *)
(* the registry gets no publish and no device, and the readings of the     *)
(* registered stations of the same cycle are published all the same.       *)
(***************************************************************************)
C14_BuiltFromFirstReadings ==
    (~registered /\ registered') =>
        /\ fetched = "ok" /\ initFetches = 1
        /\ DOMAIN stations' = {data[i].id : i \in 1..Len(data)}
        /\ \A i \in 1..Len(data) :
              stations'[data[i].id] =
                  [topic |-> data[i].id, name |-> data[i].name]

C14_NeverChanged == registered => (registered' /\ stations' = stations)

C14_UnknownReadingSkipped ==
    (registered /\ fetched = "ok") =>
        \A j \in 1..Len(data) :
            IF data[j].id \notin DOMAIN stations
            THEN PubsOfStation(data[j].id) = {}
            ELSE j < idx => PubsOf(data[j].id, "precipitation") # {}

C14_RegistryBuiltOnce ==
    /\ [][C14_BuiltFromFirstReadings /\ C14_NeverChanged]_vars
    /\ [](~registered => stations = EmptyRegistry)
    /\ [](pc = "update" => exitBy # "panic")
    /\ []C14_UnknownReadingSkipped

\* A later poll returns a station that was not in the startup readings,
\* followed by the registered one: the second is published, the first not.
C14_Witness ==
    /\ registered /\ CycleDone /\ Len(data) = 2
    /\ data[1].id \notin DOMAIN stations
    /\ DOMAIN stations = {data[2].id}
    /\ PubsOfStation(data[1].id) = {}
    /\ PubsOf(data[2].id, "precipitation") # {}

(***************************************************************************)
(* C15.  Once the registry is built: when some -name value matched no      *)
(* station of the startup readings the "could not be found" diagnostic has *)
(* been logged, and a diagnostic that has been logged lists exactly the    *)
(* -name values that matched no station; main goes on to the first update. *)
(***************************************************************************)
\* the selector values that are the name of no registered station
RECURSIVE Unmatched(_, _)
Unmatched(names, reg) ==
    IF names = <<>> THEN <<>>
    ELSE (IF \E id \in DOMAIN reg : reg[id].name = Head(names) THEN <<>>
          ELSE <<Head(names)>>)
         \o Unmatched(Tail(names), reg)

C15_NotFoundListsUnmatched ==
    registered =>
        LET um == Unmatched(stationNames, stations)
        IN  /\ um # <<>> => notfound # Nil
            /\ notfound # Nil => Deref(notfound) = um
            /\ pc # "register"

(***************************************************************************)
(* C16.  A publish call that returns an error suppresses no other publish  *)
(* call: whatever calls of an update pass have failed, the calls made so   *)
(* far are those that the readings gone through determine, the pass goes   *)
(* on to the next reading, and it ends in the select with the process      *)
(* running.                                                                *)
(***************************************************************************)
\* the records of a response that are not old, in order
RECURSIVE FreshRecs(_)
FreshRecs(recs) ==
    IF recs = <<>> THEN <<>>
    ELSE (IF SampleIsOld(Head(recs)) THEN <<>> ELSE <<Head(recs)>>)
         \o FreshRecs(Tail(recs))

\* the publish calls of the readings update has gone through
PubsSoFar ==
    ExpectedPubs(SubSeq(FreshRecs(resp.recs), 1, idx - 1), stations)

C16_ReadingStep ==
    (pc = "update" /\ idx' # idx /\ (pubFailed \/ pubFailed')) =>
        IF idx <= Len(data)
        THEN pc' = "update" /\ idx' = idx + 1 /\ exitCode' = -1
        ELSE pc' = "select" /\ exitCode' = -1 /\ stations' = stations

C16_FailedPublishSuppressesNothing ==
    /\ [][C16_ReadingStep]_vars
    /\ []((pc = "update" /\ pubFailed) => pubs = PubsSoFar)

\* Two readings of registered stations, some publish call failed, and all
\* six calls have been made.
C16_Witness ==
    /\ CycleDone /\ pubFailed /\ exitCode = -1
    /\ Len(data) = 2 /\ Len(pubs) = 6 /\ pubs = PubsSoFar

(***************************************************************************)
(* C17.  The publish calls of a cycle follow the order of the fetch        *)
(* result, all calls of one reading before any call of the next, and       *)
(* cycles do not overlap: update is left only when it has gone through     *)
(* every reading, the timer is armed only when the cycle body is left, and *)
(* a fetch is issued only from the select, on the timer.                   *)
(***************************************************************************)
\* the position of a station's record in the response
PosOf(id) == CHOOSE i \in 1..Len(resp.recs) : resp.recs[i].id = id

C17_InResultOrder ==
    \A k, l \in 1..Len(pubs) :
        k < l => PosOf(pubs[k].id) <= PosOf(pubs[l].id)

C17_UpdateLeftWhenDone ==
    (pc = "update" /\ pc' # "update") => idx > Len(data) /\ pc' = "select"

C17_TimerArmedAfterBody ==
    pollRemaining' > pollRemaining =>
        /\ pc \in {"update", "fetch"} /\ pc' = "select"
        /\ pollRemaining' = PollInterval

C17_FetchFromSelect ==
    (pc # "fetch" /\ pc' = "fetch") =>
        pc = "select" /\ woken = "timer" /\ pubs = <<>> /\ data = <<>>

C17_OrderedAndNotOverlapping ==
    /\ [][C17_UpdateLeftWhenDone /\ C17_TimerArmedAfterBody
          /\ C17_FetchFromSelect]_vars
    /\ []C17_InResultOrder
    /\ [](pc \in {"fetch", "update"} => pollRemaining = 0)

\* Two readings published in full: three calls for the first reading, then
\* three for the second.
C17_Witness ==
    /\ CycleDone /\ ~pubFailed /\ Len(data) = 2 /\ Len(pubs) = 6
    /\ \A k \in 1..3 : pubs[k].id = data[1].id /\ pubs[k + 3].id = data[2].id
    /\ data[1].id = resp.recs[1].id /\ data[2].id = resp.recs[2].id

(***************************************************************************)
(* C18.  retrieve does not panic on a response of an unexpected shape: a   *)
(* body that does not decode, a 400 payload with an empty result list or a *)
(* record without Id makes it return an error and no readings, and after a *)
(* periodic fetch main is back in the select.                              *)
(***************************************************************************)
Malformed(r) ==
    /\ r.net
    /\ \/ ~r.decodable
       \/ r.status = StatusBadRequest /\ r.decodable /\ r.nres = 0
       \/ \E i \in 1..Len(r.recs) : r.recs[i].id = NilString

C18_RetrieveNeverPanics ==
    (fetched # "none" /\ Malformed(resp)) =>
        /\ fetched = "err"
        /\ data = <<>>
        /\ exitBy # "panic"
        /\ registered => pc \in {"select", "exited"}

(***************************************************************************)
(* C19.  No device is registered and no publish call is made, the first    *)
(* update pass included, before the connection goroutine has connected to  *)
(* the broker.                                                             *)
(***************************************************************************)
C19_NothingBeforeConnected ==
    (registered \/ pubs # <<>> \/ pc \in {"update", "select", "fetch"})
        => established

(***************************************************************************)
(* C20.  When a record carries a 30 minute precipitation v, the value      *)
(* published for its station is 2 * v with one fractional digit, in every  *)
(* cycle and in both daemons: the XML daemon's reading carries v and       *)
(* update doubles it, the JSON daemon's reading carries 2 * v and update   *)
(* publishes it as it is.                                                  *)
(***************************************************************************)
C20_ReadingCarries ==
    fetched = "ok" =>
        \A j \in 1..Len(data) :
            LET r == FreshRecs(resp.recs)[j]
            IN  r.precip # Nil =>
                    IF variant = "xml" THEN data[j].precip = r.precip
                    ELSE data[j].precip = 2 * r.precip[1]

C20_PrecipitationDoubledOnce ==
    /\ C20_ReadingCarries
    /\ \A k \in 1..Len(pubs) :
          pubs[k].feature = "precipitation" =>
              \A i \in 1..Len(resp.recs) :
                  (/\ resp.recs[i].id = pubs[k].id
                   /\ resp.recs[i].precip # Nil)
                  => /\ pubs[k].value = FormatFloat(2 * resp.recs[i].precip[1])
                     /\ resp.recs[i].precip[1] = 12 => pubs[k].value = "0.2"

\* A cycle after a failed one, JSON daemon: 0.12 mm in 30 minutes is in the
\* reading as 0.24 and published as "0.2".
C20_Witness ==
    /\ variant = "json" /\ prevFailed /\ CycleDone
    /\ resp.recs # <<>> /\ resp.recs[1].precip = Some(12)
    /\ data # <<>> /\ data[1].precip = 24
    /\ \E k \in 1..Len(pubs) :
          pubs[k] = Pub(data[1].id, "precipitation", "0.2")

====
